---- MODULE Spec2Model ----
(***************************************************************************)
(* Model of the browser client of the RF signal monitor                    *)
(* (src/static/script.js): the WebSocket snapshot handler, the             *)
(* active/inactive bookkeeping, the geofence and the map markers.          *)
(*                                                                         *)
(* Time is in milliseconds relative to page load.  Coordinates are in      *)
(* metres of arc (one unit of latitude or longitude near the equator is    *)
(* one metre on the ground), so that Leaflet's distanceTo is the planar    *)
(* distance between two points and "distance <= radius" is the comparison  *)
(* of the squared distance with the squared radius.                        *)
(***************************************************************************)
EXTENDS Integers, Sequences, FiniteSets, TLC

VARIABLES
    now,              \* wall clock read by new Date()
    currentDevices,   \* script.js:6, the device objects of the last snapshot
    deviceStatus,     \* script.js:17, [active, inactive]: id -> last_seen of the stored device
    map,              \* script.js:7, FALSE is null, TRUE a live Leaflet map
    mapInitialized,   \* script.js:13
    mapTimers,        \* pending setTimeout bodies of initializeMap
    deviceMarkers,    \* script.js:8, id -> the marker is a layer of the live map
    geofenceCircle,   \* script.js:9, NoCircle or [center, radius]
    geofenceEnabled,  \* script.js:10
    settingGeofence,  \* window.settingGeofence
    userLocation,     \* script.js:12
    usingGPS,         \* script.js:14
    userMarker,       \* script.js:11, the position of the station marker (on: it exists)
    mapCenter,        \* the centre the map view was last set to (map.setView)
    threw,            \* the handler that ran last ended in an exception (console.error)
    wsOpen,           \* script.js:2, the WebSocket of ws is connecting or open
    circleShown,      \* geofenceCircle is a layer of the live map
    circleLayers,     \* number of circle layers of the live map
    modal,            \* the device details modal: NoModal, or the device it was opened for
    pending,          \* whitelist requests (fetch) that wait for their response
    lastAlert,        \* what the whitelist handler that ran last told the user (alert)
    showWhitelistedOnly, \* script.js:4
    deviceList,       \* the items of the element 'deviceList', as updateDeviceList left them
    geoPending,       \* getCurrentPosition has not called back yet
    fetchPending,     \* the initial fetch('/api/devices') has not settled yet
    reconnectTimers,  \* due times of the pending setTimeout(initializeWebSocket, 5000)
    staleSockets,     \* sockets that are still open although ws refers to a newer one
    connectAttempts   \* calls of initializeWebSocket so far

\* the layers a geofence puts on the map
layerVars == <<circleShown, circleLayers>>

\* the state of the whitelist dialogue
whitelistVars == <<modal, pending, lastAlert>>

\* the whitelist filter and the rendered device list
listVars == <<showWhitelistedOnly, deviceList>>

\* the callbacks that DOMContentLoaded has asked for
loadVars == <<geoPending, fetchPending>>

\* the reconnection of the WebSocket
retryVars == <<reconnectTimers, staleSockets, connectAttempts>>

vars == <<now, currentDevices, deviceStatus, map, mapInitialized, mapTimers,
          deviceMarkers, geofenceCircle, geofenceEnabled, settingGeofence,
          userLocation, usingGPS, userMarker, mapCenter, threw,
          wsOpen, circleShown, circleLayers, modal, pending, lastAlert,
          showWhitelistedOnly, deviceList, geoPending, fetchPending,
          reconnectTimers, staleSockets, connectAttempts>>

----------------------------------------------------------------------------
(* Bounds of the model *)

MaxTime == 31000
MaxBatch == 2
MaxTimers == 2
MaxPending == 1

(* Program constants *)

ActiveThresholdMs == 30000
GeofenceRadius == 500
RecenterThreshold == 100

\* setTimeout(initializeWebSocket, 5000)
ReconnectDelayMs == 5000
LatLimit == 10007543
LngLimit == 20015086

----------------------------------------------------------------------------
(* Inputs *)

Ids == {"a", "b"}

TickSteps == {15500}

Loc(f, la, ln, num) == [fmt |-> f, lat |-> la, lng |-> ln, numeric |-> num]

NoLoc == Loc("none", 0, 0, TRUE)
LocNear == Loc("latlng", 111, 111, TRUE)
LocEdge == Loc("latitude", 300, 400, TRUE)
LocNonNumeric == Loc("latlng", 0, 0, FALSE)
\* one metre north of latitude 90
LocOutOfRange == Loc("latlng", LatLimit + 1, 0, TRUE)

\* LocEdge, sent as {latitude, longitude}, is 500 m from the first centre
\* and 501 m from the second.
Centers == {[lat |-> 0, lng |-> 0], [lat |-> 300, lng |-> 901]}

Pos(la, ln) == [lat |-> la, lng |-> ln]

\* data.monitoring_station: absent, or a fix
NoStation == [present |-> FALSE, lat |-> 0, lng |-> 0]
Station(la, ln) == [present |-> TRUE, lat |-> la, lng |-> ln]

\* An entry of data.devices: last_seen is now - age when the message is built.
\* whitelisted is the flag the server puts on the entry (absent reads as false).
Entry(i, a, l, p) ==
    [id |-> i, age |-> a, location |-> l, power |-> p, whitelisted |-> FALSE]

\* the entry as the server sends it when it has the id on (w) or off its whitelist
Listed(e, w) == [e EXCEPT !.whitelisted = w]

\* entries that differ in id and age (the snapshots of the activity claims)
RegistryEntries ==
    { Entry("a", 0, LocNear, TRUE),
      Entry("a", 30000, LocNear, TRUE),
      Entry("b", 0, NoLoc, TRUE),
      Entry("b", 30000, NoLoc, TRUE) }

\* entries that differ in location (the snapshots of the geofence claims)
GeofenceEntries ==
    { Entry("a", 0, LocNonNumeric, TRUE),
      Entry("b", 0, LocEdge, TRUE),
      Entry("b", 0, NoLoc, TRUE) }

\* one id with a valid location and with coordinates out of range
\* (the snapshots of the claims about invalid locations)
LocationEntries ==
    { Entry("a", 0, LocNear, TRUE),
      Entry("a", 0, LocOutOfRange, TRUE) }

SeqsUpTo(S, n) == UNION { [1..k -> S] : k \in 0..n }

RegistryBatches == SeqsUpTo(RegistryEntries, MaxBatch)

\* no entry is listed twice in a batch
NoRepeat(batch) == \A i, j \in 1..Len(batch) : i # j => batch[i] # batch[j]

\* the batches of the geofence claims list an entry at most once
GeofenceBatches == { batch \in SeqsUpTo(GeofenceEntries, MaxBatch) : NoRepeat(batch) }

LocationBatches == SeqsUpTo(LocationEntries, MaxBatch)

\* a well-formed located entry and an entry without power
\* (the snapshots of the claims about the station fix and malformed entries)
StationEntries ==
    { Entry("a", 0, LocNear, TRUE),
      Entry("b", 0, NoLoc, FALSE) }

StationBatches == SeqsUpTo(StationEntries, MaxBatch)

\* the fixes (0, 0), (0, 0.0001) and (0, 0.01): 11 m and 1113 m east of the first
Fixes == {Station(0, 0), Station(0, 11), Station(0, 1113)}

\* one id as the server reports it when it is off and on its whitelist
\* (the snapshots of the whitelist claims)
WhitelistEntries ==
    { Entry("a", 0, NoLoc, TRUE),
      Listed(Entry("a", 0, NoLoc, TRUE), TRUE) }

WhitelistBatches == SeqsUpTo(WhitelistEntries, MaxBatch)

\* an inactive located device that is not whitelisted and an active whitelisted
\* device without location (the snapshots of the claims about the device list)
ListEntries ==
    { Entry("a", 30000, LocEdge, TRUE),
      Listed(Entry("b", 0, NoLoc, TRUE), TRUE) }

ListBatches == SeqsUpTo(ListEntries, MaxBatch)

\* a located device and a device without location
\* (the data of the claims about devices without location)
ProcessEntries ==
    { Entry("a", 0, LocNear, TRUE),
      Entry("b", 0, NoLoc, TRUE) }

ProcessBatches == SeqsUpTo(ProcessEntries, MaxBatch)

\* one located device, in snapshots and in the response of the initial fetch
\* (the data of the claims about the start of the page)
StartupBatches == SeqsUpTo({Entry("a", 0, LocNear, TRUE)}, MaxBatch)

\* the position the browser reports (getCurrentPosition)
BrowserPositions == {Pos(50, 50)}

\* snapshots of one located device (the claims about the connection)
ConnectionBatches == SeqsUpTo({Entry("b", 0, LocEdge, TRUE)}, MaxBatch)

----------------------------------------------------------------------------
(* Values *)

NoCircle == [center |-> [lat |-> 0, lng |-> 0], radius |-> 0]

NoMarker == [on |-> FALSE, lat |-> 0, lng |-> 0]

\* the device details modal before showDeviceDetails has run
NoModal == [id |-> "none", whitelisted |-> FALSE, open |-> FALSE]

\* showDeviceDetails(device): the hidden input holds the id, the "add" button is
\* shown for a device that is not whitelisted, the "remove" button for one that is
ModalFor(d) == [id |-> d.id, whitelisted |-> d.whitelisted, open |-> TRUE]

\* a request the page has sent to /api/whitelist/<id>: POST ("add") or DELETE ("remove")
Request(o, i) == [op |-> o, id |-> i]

\* what fetch() can end in: a 2xx response, 404, 500, or a rejected promise
Responses == {"ok", "not_found", "server_error", "network_error"}

\* response.ok
ResponseOk(r) == r = "ok"

\* the answers the server gives to a request: only a DELETE is answered with
\* "not found in whitelist"
ResponsesTo(req) == IF req.op = "add" THEN Responses \ {"not_found"} ELSE Responses
MarkerAt(p) == [on |-> TRUE, lat |-> p.lat, lng |-> p.lng]

\* the default userLocation (San Francisco, 37.7749, -122.4194)
DefaultLocation == Pos(4200377, -13612372)

Tri(b) == IF b THEN "true" ELSE "false"

EmptyMap == [i \in {} |-> 0]

\* Device for a page that drops the server's whitelisted flag
DeviceUnlisted(e, t) ==
    [id |-> e.id, last_seen |-> t - e.age, location |-> e.location,
     power |-> e.power, whitelisted |-> FALSE,
     isActive |-> "undefined", insideGeofence |-> "undefined"]

\* The object JSON.parse builds for one entry of data.devices.
Device(e, t) ==
    [id |-> e.id, last_seen |-> t - e.age, location |-> e.location,
     power |-> e.power, whitelisted |-> e.whitelisted,
     isActive |-> "undefined", insideGeofence |-> "undefined"]

ParseDevices(batch, t) == [i \in 1..Len(batch) |-> Device(batch[i], t)]

IdsOf(devs) == { devs[i].id : i \in 1..Len(devs) }

----------------------------------------------------------------------------
(* Geometry *)

\* L.latLng(lat, lng) throws "Invalid LatLng object" when a coordinate is NaN.
LatLngThrows(loc) == ~loc.numeric

Abs(x) == IF x < 0 THEN -x ELSE x

DistSq(loc, c) == (loc.lat - c.lat) * (loc.lat - c.lat) + (loc.lng - c.lng) * (loc.lng - c.lng)

\* InsideZone with "<" in place of "<=": a device on the boundary is outside
InsideZoneStrict(loc, circle) ==
    /\ Abs(loc.lat - circle.center.lat) <= circle.radius
    /\ Abs(loc.lng - circle.center.lng) <= circle.radius
    /\ DistSq(loc, circle.center) < circle.radius * circle.radius

\* deviceLatLng.distanceTo(geofenceCenter) <= geofenceRadius
\* (a point further than the radius along one axis is outside; the squares are
\* only taken of offsets within the radius)
InsideZone(loc, circle) ==
    /\ Abs(loc.lat - circle.center.lat) <= circle.radius
    /\ Abs(loc.lng - circle.center.lng) <= circle.radius
    /\ DistSq(loc, circle.center) <= circle.radius * circle.radius

\* the coordinate check of updateMarkers: numeric and within [-90,90]x[-180,180]
ValidCoords(loc) ==
    /\ loc.numeric
    /\ ~(loc.lat < -LatLimit \/ loc.lat > LatLimit)
    /\ ~(loc.lng < -LngLimit \/ loc.lng > LngLimit)

HasLocation(d) == d.location.fmt # "none"

ZoneActive == geofenceCircle # NoCircle /\ geofenceEnabled

----------------------------------------------------------------------------
(* Active / inactive bookkeeping of ws.onmessage *)

IsRecent(d, t) == t - d.last_seen < ActiveThresholdMs

Put(f, k, v) == [x \in (DOMAIN f) \cup {k} |-> IF x = k THEN v ELSE f[x]]

Remove(f, k) == [x \in (DOMAIN f) \ {k} |-> f[x]]

\* "First, mark all devices as inactive"
MarkAllInactive(st) ==
    [active |-> EmptyMap,
     inactive |-> [x \in (DOMAIN st.inactive) \cup (DOMAIN st.active) |->
                      IF x \in DOMAIN st.active THEN st.active[x] ELSE st.inactive[x]],
     activeIds |-> {}]

\* the body of "currentDevices.forEach(device => ...)" for one device
TrackDevice(st, d, t) ==
    IF IsRecent(d, t)
    THEN [active |-> Put(st.active, d.id, d.last_seen),
          inactive |-> Remove(st.inactive, d.id),
          activeIds |-> st.activeIds \cup {d.id}]
    ELSE [active |-> st.active,
          inactive |-> Put(st.inactive, d.id, d.last_seen),
          activeIds |-> st.activeIds]

RECURSIVE TrackDevices(_, _, _, _)
TrackDevices(st, devs, i, t) ==
    IF i > Len(devs) THEN st
    ELSE TrackDevices(TrackDevice(st, devs[i], t), devs, i + 1, t)

\* "device.isActive = activeDeviceIds.has(device.id)"
StampActive(devs, activeIds) ==
    [i \in 1..Len(devs) |-> [devs[i] EXCEPT !.isActive = Tri(devs[i].id \in activeIds)]]

----------------------------------------------------------------------------
(* Device list, markers and geofence evaluation *)

\* "devices.filter(device => !showWhitelistedOnly || device.whitelisted)"
Shown(devs, only) == IF only THEN SelectSeq(devs, LAMBDA d : d.whitelisted) ELSE devs

\* index of the first shown device on whose template updateDeviceList throws
\* ("device.power.toFixed(1)" of a device without power), or Len + 1
FirstListThrow(shown) ==
    LET bad == { i \in 1..Len(shown) : ~shown[i].power }
    IN  IF bad = {} THEN Len(shown) + 1
        ELSE CHOOSE i \in bad : \A j \in bad : i <= j

ListThrows(devs, only) == FirstListThrow(Shown(devs, only)) <= Len(Shown(devs, only))

\* updateDeviceList(devs) throws under the current filter
UpdateDeviceListThrows(devs) == ListThrows(devs, showWhitelistedOnly)

\* GeofenceAlert for a template that tests "!device.insideGeofence"
GeofenceAlertLoose(d) == d.insideGeofence # "true"

\* "device.insideGeofence === false": the class geofence-alert and the badge
\* "Outside Geofence" of a list item
GeofenceAlert(d) == d.insideGeofence = "false"

\* the list item of a device: the value of insideGeofence the template read and
\* whether the item carries the alert
ListItem(d) == [id |-> d.id, insideGeofence |-> d.insideGeofence, alert |-> GeofenceAlert(d)]

\* the items updateDeviceList(devs) leaves in the list: those of the shown
\* devices, up to the first one whose template throws
DeviceListOf(devs, only) ==
    LET shown == Shown(devs, only)
    IN  [i \in 1..(FirstListThrow(shown) - 1) |-> ListItem(shown[i])]

\* the active devices first (the stable sort of an earlier updateDeviceList)
ActiveFirst(devs) ==
    SelectSeq(devs, LAMBDA d : d.isActive = "true")
        \o SelectSeq(devs, LAMBDA d : d.isActive # "true")

\* DevicesAfterList for an updateDeviceList that sorts the array it was given
\* when the filter is off
DevicesAfterListSorted(devs, only) == IF only THEN devs ELSE ActiveFirst(devs)

\* the array currentDevices refers to after updateDeviceList(devs):
\* "currentDevices = devices", and filter() works on a copy
DevicesAfterList(devs, only) == devs

\* one iteration of the forEach of updateMarkers
MarkDevice(d, circle, enabled) ==
    IF ~HasLocation(d) THEN d
    ELSE LET n == [d EXCEPT !.location.fmt = "latlng"]
         IN  IF ~ValidCoords(n.location) THEN n
             ELSE IF circle # NoCircle /\ enabled
                  THEN [n EXCEPT !.insideGeofence = Tri(InsideZone(n.location, circle))]
                  ELSE n

\* the devices updateMarkers hands to updateMarkerForDevice
Markable(devs) ==
    { devs[i].id : i \in { j \in 1..Len(devs) : HasLocation(devs[j]) /\ ValidCoords(devs[j].location) } }

\* MarkersAfter for an updateMarkers without its clean-up loop
MarkersAfterNoCleanup(markers, ids, keep) ==
    [x \in (DOMAIN markers) \cup ids |->
        IF x \in DOMAIN markers THEN markers[x] ELSE TRUE]

\* updateMarkerForDevice: an existing marker is updated in place, a new one is
\* added to the current map; then "Clean up markers for devices that no longer exist".
MarkersAfter(markers, ids, keep) ==
    [x \in ((DOMAIN markers) \cup ids) \cap keep |->
        IF x \in DOMAIN markers THEN markers[x] ELSE TRUE]

UpdateMarkers(devs, markers, m, inited, circle, enabled) ==
    IF ~m \/ ~inited
    THEN [devs |-> devs, markers |-> markers]
    ELSE [devs |-> [i \in 1..Len(devs) |-> MarkDevice(devs[i], circle, enabled)],
          markers |-> MarkersAfter(markers, Markable(devs), IdsOf(devs))]

\* index of the first device on which checkDevicesAgainstGeofence throws, or Len + 1
FirstThrow(devs) ==
    LET bad == { i \in 1..Len(devs) : HasLocation(devs[i]) /\ LatLngThrows(devs[i].location) }
    IN  IF bad = {} THEN Len(devs) + 1
        ELSE CHOOSE i \in bad : \A j \in bad : i <= j

CheckDevice(d, circle) ==
    IF HasLocation(d)
    THEN [d EXCEPT !.insideGeofence = Tri(InsideZone(d.location, circle))]
    ELSE d

CheckDevicesAgainstGeofence(devs, markers, m, circle, enabled) ==
    IF circle = NoCircle \/ ~enabled
    THEN [devs |-> devs, markers |-> markers, threw |-> FALSE, listed |-> FALSE]
    ELSE LET k == FirstThrow(devs)
             seen == { devs[i].id : i \in { j \in 1..(k - 1) : HasLocation(devs[j]) } }
         IN  [devs |-> [i \in 1..Len(devs) |->
                           IF i < k THEN CheckDevice(devs[i], circle) ELSE devs[i]],
              markers |-> IF ~m THEN markers
                          ELSE MarkersAfter(markers, seen, (DOMAIN markers) \cup seen),
              threw |-> k <= Len(devs) \/ UpdateDeviceListThrows(devs),
              \* updateDeviceList(currentDevices) was reached
              listed |-> k > Len(devs)]

\* LayersAfterRemove for a removeLayer that never takes the old circle off the map
LayersKeepOld(n, shown) == n

\* map.removeLayer(layer): a layer that is on the map leaves it, any other is ignored
LayersAfterRemove(n, shown) == IF shown THEN n - 1 ELSE n

\* map.addLayer(layer): a layer that is already on the map is not added again
LayersAfterAdd(n, shown) == IF shown THEN n ELSE n + 1

----------------------------------------------------------------------------
(* Pending initializeMap timers *)

\* initializeMap(devices): the deferred body keeps the devices array it was given.
\* cur: the array is still the one currentDevices refers to.  Otherwise nothing
\* but the timer refers to the array, and all the body does with it is
\* updateMarkers(devices): ids are the ids of its devices, markable those of the
\* devices that pass the location checks of updateMarkers.
MapTimer(c, i, m) == [cur |-> c, ids |-> i, markable |-> m]

\* currentDevices is about to be reassigned: pending timers keep the old array
Detach(timers, devs) ==
    [i \in 1..Len(timers) |->
        IF timers[i].cur THEN MapTimer(FALSE, IdsOf(devs), Markable(devs)) ELSE timers[i]]

----------------------------------------------------------------------------
(* Initial state: DOMContentLoaded has run *)

Init ==
    /\ now = 0
    /\ currentDevices = <<>>
    /\ deviceStatus = [active |-> EmptyMap, inactive |-> EmptyMap]
    /\ map = FALSE
    /\ mapInitialized = FALSE
    /\ mapTimers = <<MapTimer(FALSE, {}, {})>>
    /\ deviceMarkers = EmptyMap
    /\ geofenceCircle = NoCircle
    /\ geofenceEnabled = FALSE
    /\ settingGeofence = FALSE
    /\ userLocation = DefaultLocation
    /\ usingGPS = FALSE
    /\ userMarker = NoMarker
    /\ mapCenter = DefaultLocation
    /\ threw = FALSE
    /\ wsOpen = TRUE
    /\ circleShown = FALSE
    /\ circleLayers = 0
    /\ modal = NoModal
    /\ pending = <<>>
    /\ lastAlert = "none"
    /\ showWhitelistedOnly = FALSE
    /\ deviceList = <<>>
    /\ geoPending = TRUE
    /\ fetchPending = TRUE
    /\ reconnectTimers = <<>>
    /\ staleSockets = 0
    /\ connectAttempts = 1

----------------------------------------------------------------------------
(* Actions *)

\* wall-clock time passes; no handler runs
Tick ==
    \E step \in TickSteps :
        /\ now + step <= MaxTime
        /\ now' = now + step
        /\ threw' = FALSE
        /\ UNCHANGED <<currentDevices, deviceStatus, map, mapInitialized, mapTimers,
                       deviceMarkers, geofenceCircle, geofenceEnabled, settingGeofence,
                       userLocation, usingGPS, userMarker, mapCenter>>
        /\ UNCHANGED <<wsOpen, layerVars, whitelistVars>>
        /\ UNCHANGED <<listVars, loadVars, retryVars>>

\* getDistance(point1, point2) > 100 (getDistance is 0 without a map)
FartherThan(m, p, q, d) ==
    /\ m
    /\ \/ Abs(p.lat - q.lat) > d
       \/ Abs(p.lng - q.lng) > d
       \/ DistSq(p, q) > d * d

\* the sockets whose handlers can still be called: every socket gets the same
\* handlers, and assigning a new socket to ws does not close the old one
LiveSockets == (IF wsOpen THEN 1 ELSE 0) + staleSockets

\* ws.onmessage for a message whose data.devices is batch and whose
\* data.monitoring_station is station (a missing devices array behaves as the
\* empty one: "data.devices || []")
OnMessageOf(batch, station) ==
        LET parsed == ParseDevices(batch, now)
            st == TrackDevices(MarkAllInactive(deviceStatus), parsed, 1, now)
            stamped == StampActive(parsed, st.activeIds)
            listThrows == UpdateDeviceListThrows(stamped)
            listed == DevicesAfterList(stamped, showWhitelistedOnly)
            um1 == UpdateMarkers(listed, deviceMarkers, map, mapInitialized,
                                 geofenceCircle, geofenceEnabled)
            gps == Pos(station.lat, station.lng)
            hasMarker == map /\ userMarker.on
            recenter == ~mapInitialized \/ FartherThan(map, MarkerAt(gps), gps, RecenterThreshold)
            schedule1 == station.present /\ ~hasMarker /\ ~mapInitialized
            schedule2 == ~mapInitialized /\ Len(batch) > 0
            um2 == IF Len(batch) > 0
                   THEN UpdateMarkers(um1.devs, um1.markers, map, mapInitialized,
                                      geofenceCircle, geofenceEnabled)
                   ELSE um1
            detached == Detach(mapTimers, currentDevices)
            timers1 == IF schedule1 THEN Append(detached, MapTimer(TRUE, {}, {})) ELSE detached
            timers2 == IF schedule2 THEN Append(timers1, MapTimer(TRUE, {}, {})) ELSE timers1
        IN  /\ LiveSockets > 0
            /\ ~listThrows => Len(timers2) <= MaxTimers
            /\ deviceStatus' = [active |-> st.active, inactive |-> st.inactive]
            /\ threw' = listThrows
            /\ deviceList' = DeviceListOf(stamped, showWhitelistedOnly)
            /\ IF listThrows
               THEN /\ currentDevices' = listed
                    /\ mapTimers' = detached
                    /\ UNCHANGED <<deviceMarkers, userLocation, usingGPS, userMarker, mapCenter>>
               ELSE /\ currentDevices' = um2.devs
                    /\ deviceMarkers' = um2.markers
                    /\ mapTimers' = timers2
                    /\ IF station.present
                       THEN /\ userLocation' = gps
                            /\ usingGPS' = TRUE
                            /\ userMarker' = IF hasMarker THEN MarkerAt(gps) ELSE userMarker
                            /\ mapCenter' = IF hasMarker /\ recenter THEN gps ELSE mapCenter
                       ELSE UNCHANGED <<userLocation, usingGPS, userMarker, mapCenter>>
            /\ UNCHANGED <<now, map, mapInitialized, geofenceCircle, geofenceEnabled,
                           settingGeofence>>
            /\ UNCHANGED <<wsOpen, layerVars, whitelistVars>>
            /\ UNCHANGED <<showWhitelistedOnly, loadVars, retryVars>>

\* ws.onmessage for some message the server can send
OnMessage(batches, stations) ==
    \E batch \in batches, station \in stations : OnMessageOf(batch, station)

\* the deferred body of initializeMap runs
MapTimerFires ==
    /\ mapTimers # <<>>
    /\ LET t == Head(mapTimers)
           \* map.remove(): the layers of the old map are no longer shown
           old == [x \in DOMAIN deviceMarkers |-> FALSE]
           um == UpdateMarkers(currentDevices, old, TRUE, TRUE, geofenceCircle, geofenceEnabled)
       IN  /\ map' = TRUE
           /\ mapCenter' = userLocation
           /\ userMarker' = MarkerAt(userLocation)
           /\ mapInitialized' = TRUE
           /\ mapTimers' = Tail(mapTimers)
           /\ IF t.cur
              THEN IF Len(currentDevices) > 0
                   THEN currentDevices' = um.devs /\ deviceMarkers' = um.markers
                   ELSE currentDevices' = currentDevices /\ deviceMarkers' = old
              ELSE /\ currentDevices' = currentDevices
                   /\ deviceMarkers' = IF t.ids # {}
                                       THEN MarkersAfter(old, t.markable, t.ids)
                                       ELSE old
    /\ threw' = FALSE
    \* the new map has none of the layers of the map that map.remove() tore down
    /\ circleShown' = FALSE
    /\ circleLayers' = 0
    /\ UNCHANGED <<now, deviceStatus, geofenceCircle, geofenceEnabled, settingGeofence,
                   userLocation, usingGPS>>
    /\ UNCHANGED <<wsOpen, whitelistVars>>
    /\ UNCHANGED <<listVars, loadVars, retryVars>>

\* the "Set Geofence" button
SetGeofence ==
    /\ ~settingGeofence
    /\ settingGeofence' = TRUE
    /\ threw' = FALSE
    /\ UNCHANGED <<now, currentDevices, deviceStatus, map, mapInitialized, mapTimers,
                   deviceMarkers, geofenceCircle, geofenceEnabled,
                   userLocation, usingGPS, userMarker, mapCenter>>
    /\ UNCHANGED <<wsOpen, layerVars, whitelistVars>>
    /\ UNCHANGED <<listVars, loadVars, retryVars>>

\* a click on the map while a geofence is being placed: setGeofenceAtPosition(e.latlng)
SetGeofenceAt(c) ==
    LET circle == [center |-> c, radius |-> GeofenceRadius]
        chk == CheckDevicesAgainstGeofence(currentDevices, deviceMarkers, map, circle, TRUE)
    IN  /\ map
        /\ settingGeofence
        /\ geofenceCircle' = circle
        /\ geofenceEnabled' = TRUE
        \* "if (geofenceCircle) map.removeLayer(geofenceCircle)", then L.circle().addTo(map)
        /\ circleLayers' = LayersAfterRemove(circleLayers, circleShown) + 1
        /\ circleShown' = TRUE
        /\ currentDevices' = IF chk.listed
                             THEN DevicesAfterList(chk.devs, showWhitelistedOnly)
                             ELSE chk.devs
        /\ deviceList' = IF chk.listed
                         THEN DeviceListOf(chk.devs, showWhitelistedOnly)
                         ELSE deviceList
        /\ deviceMarkers' = chk.markers
        /\ threw' = chk.threw
        /\ settingGeofence' = chk.threw
        /\ UNCHANGED <<now, deviceStatus, map, mapInitialized, mapTimers,
                       userLocation, usingGPS, userMarker, mapCenter>>
        /\ UNCHANGED <<wsOpen, whitelistVars>>
        /\ UNCHANGED <<showWhitelistedOnly, loadVars, retryVars>>

SetGeofenceAtPosition == \E c \in Centers : SetGeofenceAt(c)

\* the "Toggle Geofence" button
ToggleGeofence ==
    LET chk == CheckDevicesAgainstGeofence(currentDevices, deviceMarkers, map,
                                           geofenceCircle, ~geofenceEnabled)
    IN  /\ geofenceCircle # NoCircle
        /\ geofenceEnabled' = ~geofenceEnabled
        \* map.addLayer(geofenceCircle) or map.removeLayer(geofenceCircle)
        /\ circleLayers' = IF geofenceEnabled
                           THEN LayersAfterRemove(circleLayers, circleShown)
                           ELSE LayersAfterAdd(circleLayers, circleShown)
        /\ circleShown' = ~geofenceEnabled
        /\ currentDevices' = IF chk.listed
                             THEN DevicesAfterList(chk.devs, showWhitelistedOnly)
                             ELSE chk.devs
        /\ deviceList' = IF chk.listed
                         THEN DeviceListOf(chk.devs, showWhitelistedOnly)
                         ELSE deviceList
        /\ deviceMarkers' = chk.markers
        /\ threw' = chk.threw
        /\ UNCHANGED <<now, deviceStatus, map, mapInitialized, mapTimers, geofenceCircle,
                       settingGeofence, userLocation, usingGPS, userMarker, mapCenter>>
        /\ UNCHANGED <<wsOpen, whitelistVars>>
        /\ UNCHANGED <<showWhitelistedOnly, loadVars, retryVars>>

\* TimersAfterClose for a handler that schedules the reconnect twice
TimersAfterCloseTwice(timers, t) ==
    Append(Append(timers, t + ReconnectDelayMs), t + ReconnectDelayMs)

\* setTimeout(initializeWebSocket, 5000) at time t
TimersAfterClose(timers, t) == Append(timers, t + ReconnectDelayMs)

\* the close event of one live socket: the one ws refers to, or (stale) one
\* that ws no longer refers to
SocketCloses ==
    \E stale \in { s \in BOOLEAN : IF s THEN staleSockets > 0 ELSE wsOpen } :
        /\ wsOpen' = (wsOpen /\ stale)
        /\ staleSockets' = IF stale THEN staleSockets - 1 ELSE staleSockets

\* OnClose for a handler that starts over with an empty registry
OnCloseResets ==
    /\ SocketCloses
    /\ now + ReconnectDelayMs <= MaxTime
    /\ reconnectTimers' = TimersAfterClose(reconnectTimers, now)
    /\ threw' = FALSE
    /\ currentDevices' = <<>>
    /\ deviceStatus' = [active |-> EmptyMap, inactive |-> EmptyMap]
    /\ UNCHANGED <<now, map, mapInitialized, mapTimers,
                   deviceMarkers, geofenceCircle, geofenceEnabled, settingGeofence,
                   userLocation, usingGPS, userMarker, mapCenter>>
    /\ UNCHANGED <<layerVars, whitelistVars>>
    /\ UNCHANGED <<listVars, loadVars, connectAttempts>>

\* ws.onclose: the status line shows "Disconnected" and a reconnect is scheduled
OnClose ==
    /\ SocketCloses
    /\ now + ReconnectDelayMs <= MaxTime
    /\ reconnectTimers' = TimersAfterClose(reconnectTimers, now)
    /\ threw' = FALSE
    /\ UNCHANGED <<now, currentDevices, deviceStatus, map, mapInitialized, mapTimers,
                   deviceMarkers, geofenceCircle, geofenceEnabled, settingGeofence,
                   userLocation, usingGPS, userMarker, mapCenter>>
    /\ UNCHANGED <<layerVars, whitelistVars>>
    /\ UNCHANGED <<listVars, loadVars, connectAttempts>>

\* the reconnect timer has run out (5 s after the close) and runs
\* initializeWebSocket: ws = new WebSocket(wsUrl), whatever ws referred to
Reconnect ==
    /\ reconnectTimers # <<>>
    /\ now >= Head(reconnectTimers)
    /\ reconnectTimers' = Tail(reconnectTimers)
    /\ wsOpen' = TRUE
    /\ staleSockets' = IF wsOpen THEN staleSockets + 1 ELSE staleSockets
    /\ connectAttempts' = connectAttempts + 1
    /\ threw' = FALSE
    /\ UNCHANGED <<now, currentDevices, deviceStatus, map, mapInitialized, mapTimers,
                   deviceMarkers, geofenceCircle, geofenceEnabled, settingGeofence,
                   userLocation, usingGPS, userMarker, mapCenter>>
    /\ UNCHANGED <<layerVars, whitelistVars>>
    /\ UNCHANGED <<listVars, loadVars>>

\* a click on a row of the device list: showDeviceDetails(device)
ShowDeviceDetails ==
    \E i \in 1..Len(currentDevices) :
        /\ modal' = ModalFor(currentDevices[i])
        /\ threw' = FALSE
        /\ UNCHANGED <<now, currentDevices, deviceStatus, map, mapInitialized, mapTimers,
                       deviceMarkers, geofenceCircle, geofenceEnabled, settingGeofence,
                       userLocation, usingGPS, userMarker, mapCenter>>
        /\ UNCHANGED <<wsOpen, layerVars, pending, lastAlert>>
        /\ UNCHANGED <<listVars, loadVars, retryVars>>

\* BrowserLocationUsed for a callback that does not look at usingGPS
BrowserLocationAlwaysUsed == TRUE

\* "Only use browser location if we're not using GPS": if (!usingGPS)
BrowserLocationUsed == ~usingGPS

\* the success callback of navigator.geolocation.getCurrentPosition
GeolocationSuccess ==
    \E pos \in BrowserPositions :
        LET hasMarker == map /\ userMarker.on
            schedule == BrowserLocationUsed /\ ~hasMarker /\ ~mapInitialized
        IN  /\ geoPending
            /\ schedule => Len(mapTimers) < MaxTimers
            /\ geoPending' = FALSE
            /\ threw' = FALSE
            /\ IF BrowserLocationUsed
               THEN /\ userLocation' = pos
                    /\ userMarker' = IF hasMarker THEN MarkerAt(pos) ELSE userMarker
                    /\ mapCenter' = IF hasMarker THEN pos ELSE mapCenter
                    \* initializeMap() without devices
                    /\ mapTimers' = IF schedule
                                    THEN Append(mapTimers, MapTimer(FALSE, {}, {}))
                                    ELSE mapTimers
               ELSE UNCHANGED <<userLocation, userMarker, mapCenter, mapTimers>>
            /\ UNCHANGED <<now, currentDevices, deviceStatus, map, mapInitialized,
                           deviceMarkers, geofenceCircle, geofenceEnabled, settingGeofence,
                           usingGPS>>
            /\ UNCHANGED <<wsOpen, layerVars, whitelistVars, listVars, fetchPending, retryVars>>

\* the error callback of getCurrentPosition: console.error
GeolocationError ==
    /\ geoPending
    /\ geoPending' = FALSE
    /\ threw' = FALSE
    /\ UNCHANGED <<now, currentDevices, deviceStatus, map, mapInitialized, mapTimers,
                   deviceMarkers, geofenceCircle, geofenceEnabled, settingGeofence,
                   userLocation, usingGPS, userMarker, mapCenter>>
    /\ UNCHANGED <<wsOpen, layerVars, whitelistVars, listVars, fetchPending, retryVars>>

\* the initial fetch('/api/devices') resolves with data.devices = batch
FetchResolvedOf(batch) ==
    LET parsed == ParseDevices(batch, now)
    IN  /\ fetchPending
        /\ fetchPending' = FALSE
        /\ currentDevices' = DevicesAfterList(parsed, showWhitelistedOnly)
        /\ deviceList' = DeviceListOf(parsed, showWhitelistedOnly)
        \* an exception of updateDeviceList ends in the catch of the promise chain
        /\ threw' = UpdateDeviceListThrows(parsed)
        /\ mapTimers' = Detach(mapTimers, currentDevices)
        /\ UNCHANGED <<now, deviceStatus, map, mapInitialized,
                       deviceMarkers, geofenceCircle, geofenceEnabled, settingGeofence,
                       userLocation, usingGPS, userMarker, mapCenter>>
        /\ UNCHANGED <<wsOpen, layerVars, whitelistVars, showWhitelistedOnly, geoPending,
                       retryVars>>

FetchResolved == \E batch \in StartupBatches : FetchResolvedOf(batch)

\* the initial fetch is rejected: console.error
FetchFailed ==
    /\ fetchPending
    /\ fetchPending' = FALSE
    /\ threw' = TRUE
    /\ UNCHANGED <<now, currentDevices, deviceStatus, map, mapInitialized, mapTimers,
                   deviceMarkers, geofenceCircle, geofenceEnabled, settingGeofence,
                   userLocation, usingGPS, userMarker, mapCenter>>
    /\ UNCHANGED <<wsOpen, layerVars, whitelistVars, listVars, geoPending, retryVars>>

\* processDeviceData: "diffSeconds <= 30" with diffSeconds the whole seconds since last_seen
ProcessIsActive(d, t) == (t - d.last_seen) \div 1000 <= 30

\* the status tracking of processDeviceData for one device
ProcessTrack(st, d, t) ==
    IF ProcessIsActive(d, t)
    THEN [active |-> Put(st.active, d.id, d.last_seen), inactive |-> Remove(st.inactive, d.id)]
    ELSE [active |-> Remove(st.active, d.id), inactive |-> Put(st.inactive, d.id, d.last_seen)]

RECURSIVE ProcessTrackUpTo(_, _, _, _, _)
ProcessTrackUpTo(st, devs, i, n, t) ==
    IF i > n THEN st
    ELSE ProcessTrackUpTo(ProcessTrack(st, devs[i], t), devs, i + 1, n, t)

\* index of the first device on which the geofence block of processDeviceData
\* throws: "device.location.latitude" of a device without location is a
\* TypeError, L.latLng of a non-numeric coordinate an Error; or Len + 1
ProcessFirstThrow(devs, zone) ==
    LET bad == { i \in 1..Len(devs) :
                   zone /\ (~HasLocation(devs[i]) \/ LatLngThrows(devs[i].location)) }
    IN  IF bad = {} THEN Len(devs) + 1
        ELSE CHOOSE i \in bad : \A j \in bad : i <= j

\* the device after the forEach body of processDeviceData
ProcessDevice(d, t, zone, circle) ==
    LET stamped == [d EXCEPT !.isActive = Tri(ProcessIsActive(d, t))]
    IN  IF zone
        THEN [stamped EXCEPT !.insideGeofence = Tri(InsideZone(d.location, circle))]
        ELSE stamped

\* processDeviceData(data) for data.devices = batch.  The page itself has no
\* call of this function; it is a global function of the script.
ProcessDeviceDataOf(batch) ==
    LET parsed == ParseDevices(batch, now)
        zone == geofenceCircle # NoCircle /\ map
        k == ProcessFirstThrow(parsed, zone)
        done == IF k <= Len(parsed) THEN k - 1 ELSE Len(parsed)
        st == ProcessTrackUpTo(deviceStatus, parsed, 1, IF k <= Len(parsed) THEN k ELSE Len(parsed), now)
        devs == [i \in 1..Len(parsed) |-> ProcessDevice(parsed[i], now, zone, geofenceCircle)]
        \* updateMarkerForDevice(device) of the devices before the throw
        marked == IF zone
                  THEN MarkersAfter(deviceMarkers, { parsed[i].id : i \in 1..done },
                                    (DOMAIN deviceMarkers) \cup { parsed[i].id : i \in 1..done })
                  ELSE deviceMarkers
        listThrows == UpdateDeviceListThrows(devs)
        um == UpdateMarkers(DevicesAfterList(devs, showWhitelistedOnly), marked, map,
                            mapInitialized, geofenceCircle, geofenceEnabled)
    IN  /\ deviceStatus' = [active |-> st.active, inactive |-> st.inactive]
        /\ IF k <= Len(parsed)
           THEN /\ threw' = TRUE
                /\ deviceMarkers' = marked
                /\ UNCHANGED <<currentDevices, deviceList, mapTimers>>
           ELSE /\ threw' = listThrows
                /\ mapTimers' = Detach(mapTimers, currentDevices)
                /\ deviceList' = DeviceListOf(devs, showWhitelistedOnly)
                /\ currentDevices' = IF listThrows
                                     THEN DevicesAfterList(devs, showWhitelistedOnly)
                                     ELSE um.devs
                /\ deviceMarkers' = IF listThrows THEN marked ELSE um.markers
        /\ UNCHANGED <<now, map, mapInitialized, geofenceCircle, geofenceEnabled,
                       settingGeofence, userLocation, usingGPS, userMarker, mapCenter>>
        /\ UNCHANGED <<wsOpen, layerVars, whitelistVars>>
        /\ UNCHANGED <<showWhitelistedOnly, loadVars, retryVars>>

ProcessDeviceData == \E batch \in ProcessBatches : ProcessDeviceDataOf(batch)

\* the button "Show Whitelisted Only" / "Show All Devices": toggleWhitelistView
ToggleWhitelistView ==
    LET only == ~showWhitelistedOnly
    IN  /\ showWhitelistedOnly' = only
        /\ currentDevices' = DevicesAfterList(currentDevices, only)
        /\ deviceList' = DeviceListOf(currentDevices, only)
        /\ threw' = ListThrows(currentDevices, only)
        /\ UNCHANGED <<now, deviceStatus, map, mapInitialized, mapTimers,
                       deviceMarkers, geofenceCircle, geofenceEnabled, settingGeofence,
                       userLocation, usingGPS, userMarker, mapCenter>>
        /\ UNCHANGED <<wsOpen, layerVars, whitelistVars, loadVars, retryVars>>

\* currentDevices.findIndex(d => d.id === deviceId), 0 for -1
FindIndex(devs, id) ==
    LET hits == { i \in 1..Len(devs) : devs[i].id = id }
    IN  IF hits = {} THEN 0 ELSE CHOOSE i \in hits : \A j \in hits : i <= j

\* WithWhitelisted for a handler that writes to the array it saw before the await
WithWhitelistedStale(devs, id, w) == devs

\* "currentDevices[deviceIndex].whitelisted = ..." when deviceIndex !== -1
WithWhitelisted(devs, id, w) ==
    LET k == FindIndex(devs, id)
    IN  [i \in 1..Len(devs) |-> IF i = k THEN [devs[i] EXCEPT !.whitelisted = w] ELSE devs[i]]

\* AfterResponse for a handler that writes the flag whatever the response is
AfterResponseOptimistic(devs, req, r) == WithWhitelisted(devs, req.id, req.op = "add")

\* the records after the response r to the request req has been handled
AfterResponse(devs, req, r) ==
    IF ResponseOk(r) THEN WithWhitelisted(devs, req.id, req.op = "add") ELSE devs

\* the "Add to Whitelist" button of the modal, up to "await fetch(...)"
AddToWhitelist ==
    LET found == FindIndex(currentDevices, modal.id) # 0
    IN  /\ modal.open
        /\ ~modal.whitelisted
        /\ found => Len(pending) < MaxPending
        /\ pending' = IF found THEN Append(pending, Request("add", modal.id)) ELSE pending
        /\ lastAlert' = IF found THEN "none" ELSE "not_in_list"
        /\ threw' = FALSE
        /\ UNCHANGED <<now, currentDevices, deviceStatus, map, mapInitialized, mapTimers,
                       deviceMarkers, geofenceCircle, geofenceEnabled, settingGeofence,
                       userLocation, usingGPS, userMarker, mapCenter>>
        /\ UNCHANGED <<wsOpen, layerVars, modal>>
        /\ UNCHANGED <<listVars, loadVars, retryVars>>

\* the "Remove from Whitelist" button of the modal, up to "await fetch(...)"
RemoveFromWhitelist ==
    /\ modal.open
    /\ modal.whitelisted
    /\ Len(pending) < MaxPending
    /\ pending' = Append(pending, Request("remove", modal.id))
    /\ lastAlert' = "none"
    /\ threw' = FALSE
    /\ UNCHANGED <<now, currentDevices, deviceStatus, map, mapInitialized, mapTimers,
                   deviceMarkers, geofenceCircle, geofenceEnabled, settingGeofence,
                   userLocation, usingGPS, userMarker, mapCenter>>
    /\ UNCHANGED <<wsOpen, layerVars, modal>>
    /\ UNCHANGED <<listVars, loadVars, retryVars>>

\* the rest of addToWhitelist / removeFromWhitelist, once the k-th pending
\* request has ended in r
Resolved(k, r) ==
    LET req == pending[k]
        flagged == AfterResponse(currentDevices, req, r)
        listThrows == UpdateDeviceListThrows(flagged)
        listed == DevicesAfterList(flagged, showWhitelistedOnly)
        um == UpdateMarkers(listed, deviceMarkers, map, mapInitialized,
                            geofenceCircle, geofenceEnabled)
    IN  /\ r \in ResponsesTo(req)
        /\ pending' = [i \in 1..(Len(pending) - 1) |->
                          IF i < k THEN pending[i] ELSE pending[i + 1]]
        /\ IF ~ResponseOk(r)
           THEN /\ currentDevices' = flagged
                /\ lastAlert' = "failure"
                /\ threw' = (r = "network_error")
                /\ UNCHANGED <<deviceMarkers, modal, deviceList>>
           ELSE /\ threw' = listThrows
                /\ deviceList' = DeviceListOf(flagged, showWhitelistedOnly)
                /\ currentDevices' = IF listThrows THEN listed ELSE um.devs
                /\ deviceMarkers' = IF listThrows THEN deviceMarkers ELSE um.markers
                \* add hides the modal before it updates the list, remove after
                /\ modal' = IF req.op = "remove" /\ listThrows
                            THEN modal
                            ELSE [modal EXCEPT !.open = FALSE]
                /\ lastAlert' = IF listThrows THEN "failure"
                                ELSE IF req.op = "remove" THEN "success" ELSE "none"
        /\ UNCHANGED <<now, deviceStatus, map, mapInitialized, mapTimers,
                       geofenceCircle, geofenceEnabled, settingGeofence,
                       userLocation, usingGPS, userMarker, mapCenter>>
        /\ UNCHANGED <<wsOpen, layerVars>>
        /\ UNCHANGED <<showWhitelistedOnly, loadVars, retryVars>>

\* some pending whitelist request ends
WhitelistResponse ==
    \E k \in 1..Len(pending), r \in Responses : Resolved(k, r)

\* ---- the registry and its active/inactive bookkeeping under passing time ----

\* a snapshot without a station fix
RegistryMessage == OnMessage(RegistryBatches, {NoStation})

Next ==
    \/ Tick
    \/ RegistryMessage
    \/ MapTimerFires

Spec == Init /\ [][Next]_vars

\* ---- the geofence and the markers; the clock stands still ----

GeofenceMessage == OnMessage(GeofenceBatches, {NoStation})

NextGeofence ==
    \/ GeofenceMessage
    \/ MapTimerFires
    \/ SetGeofence
    \/ SetGeofenceAtPosition
    \/ ToggleGeofence

SpecGeofence == Init /\ [][NextGeofence]_vars

\* ---- the whitelist dialogue around snapshots ----

WhitelistMessage == OnMessage(WhitelistBatches, {NoStation})

NextWhitelist ==
    \/ WhitelistMessage
    \/ MapTimerFires
    \/ ShowDeviceDetails
    \/ AddToWhitelist
    \/ RemoveFromWhitelist
    \/ WhitelistResponse

SpecWhitelist == Init /\ [][NextWhitelist]_vars

\* ---- the device list under the whitelist filter and a zone ----

ListMessage == OnMessage(ListBatches, {NoStation})

NextList ==
    \/ ListMessage
    \/ MapTimerFires
    \/ SetGeofence
    \/ SetGeofenceAtPosition
    \/ ToggleGeofence
    \/ ToggleWhitelistView

SpecList == Init /\ [][NextList]_vars

\* ---- every evaluation of the geofence, for devices with and without location ----

ProcessMessage == OnMessage(ProcessBatches, {NoStation})

NextProcess ==
    \/ ProcessMessage
    \/ ProcessDeviceData
    \/ MapTimerFires
    \/ SetGeofence
    \/ SetGeofenceAtPosition
    \/ ToggleGeofence

SpecProcess == Init /\ [][NextProcess]_vars

\* ---- the start of the page: the deferred map, geolocation, the initial fetch ----

StartupMessage == OnMessage(StartupBatches, {NoStation, Station(0, 0)})

NextStartup ==
    \/ StartupMessage
    \/ MapTimerFires
    \/ GeolocationSuccess
    \/ GeolocationError
    \/ FetchResolved
    \/ FetchFailed

SpecStartup == Init /\ [][NextStartup]_vars

\* ---- the station fix and malformed entries ----

StationMessage == OnMessage(StationBatches, {NoStation} \cup Fixes)

NextStation ==
    \/ StationMessage
    \/ MapTimerFires

SpecStation == Init /\ [][NextStation]_vars

\* ---- the connection: close and reconnect around snapshots and a zone ----

ConnectionMessage == OnMessage(ConnectionBatches, {NoStation})

NextConnection ==
    \/ Tick
    \/ ConnectionMessage
    \/ MapTimerFires
    \/ OnClose
    \/ Reconnect
    \/ SetGeofence
    \/ SetGeofenceAtPosition
    \/ ToggleGeofence

SpecConnection == Init /\ [][NextConnection]_vars

\* initializeWebSocket runs at page load and once per reconnect timer; a timer
\* needs time to pass (a step of Tick) between the close and the reconnect
MaxAttempts == 1 + MaxTime \div ReconnectDelayMs

\* time passes, and the browser runs the callback of a timer that has run out
FairConnection == WF_vars(Tick) /\ WF_vars(Reconnect)

SpecConnectionFair == SpecConnection /\ FairConnection

\* ---- the geofence and the markers for devices with invalid coordinates ----

LocationMessage == OnMessage(LocationBatches, {NoStation})

NextLocation ==
    \/ LocationMessage
    \/ MapTimerFires
    \/ SetGeofence
    \/ SetGeofenceAtPosition
    \/ ToggleGeofence

SpecLocation == Init /\ [][NextLocation]_vars

----------------------------------------------------------------------------
(* Claims about the registry and the activity labels (specification Spec) *)

Occurrences(devs, id) == Cardinality({ i \in 1..Len(devs) : devs[i].id = id })

Known(ds) == (DOMAIN ds.active) \cup (DOMAIN ds.inactive)

StoredLastSeen(ds, id) == IF id \in DOMAIN ds.active THEN ds.active[id] ELSE ds.inactive[id]

\* C1: after ws.onmessage has processed a snapshot at time now, every device d of
\* currentDevices has d.isActive = (now - d.last_seen < 30000 ms), also when the
\* batch lists the same id more than once with different last_seen values.
C1_ActiveIffRecent ==
    [][RegistryMessage =>
        \A i \in 1..Len(currentDevices') :
            currentDevices'[i].isActive =
                Tri(now' - currentDevices'[i].last_seen < ActiveThresholdMs)]_vars

\* C2: a device reported once with last_seen = T0 has isActive = false from the
\* moment the clock reaches T0 + 31000 ms, without a further snapshot.
C2_AgesOutByTimeAlone ==
    \A i \in 1..Len(currentDevices) :
        ( /\ Occurrences(currentDevices, currentDevices[i].id) = 1
          /\ now >= currentDevices[i].last_seen + ActiveThresholdMs + 1000 )
        => currentDevices[i].isActive = "false"

\* C3: an id that has a record in currentDevices still has one after every later
\* snapshot, also when the snapshot omits the id.
C3_PresenceMonotonic ==
    [][RegistryMessage => IdsOf(currentDevices) \subseteq IdsOf(currentDevices')]_vars

\* C4: the last_seen stored for an id never decreases from one snapshot to the next.
C4_LastSeenMonotonic ==
    [][RegistryMessage =>
        \A i \in 1..Len(currentDevices), j \in 1..Len(currentDevices') :
            currentDevices[i].id = currentDevices'[j].id
            => currentDevices'[j].last_seen >= currentDevices[i].last_seen]_vars

\* C5: currentDevices never holds two records with the same id.
C5_UniqueIds ==
    \A i, j \in 1..Len(currentDevices) :
        i # j => currentDevices[i].id # currentDevices[j].id

\* C6: a device that was active, is omitted from the batch and whose last_seen is
\* still less than 30000 ms old stays classified active after the batch.
C6_OmittedRecentStaysActive ==
    [][RegistryMessage =>
        \A id \in DOMAIN deviceStatus.active :
            ( /\ id \notin IdsOf(currentDevices')
              /\ now' - deviceStatus.active[id] < ActiveThresholdMs )
            => ( /\ id \in DOMAIN deviceStatus'.active
                 /\ id \notin DOMAIN deviceStatus'.inactive )]_vars

\* C7: a snapshot with zero devices raises no exception and leaves every known
\* record labelled active exactly when now - last_seen < 30000 ms.
C7_EmptySnapshotReclassifies ==
    [][(RegistryMessage /\ currentDevices' = <<>>) =>
        /\ ~threw'
        /\ \A id \in Known(deviceStatus') :
              (id \in DOMAIN deviceStatus'.active)
              = (now' - StoredLastSeen(deviceStatus', id) < ActiveThresholdMs)]_vars

----------------------------------------------------------------------------
(* Claims about the geofence (specification SpecGeofence) *)

\* distance(location, centre) <= radius, the boundary counted as inside
Within(loc, circle) == DistSq(loc, circle.center) <= circle.radius * circle.radius

\* the i-th device went through the geofence evaluation of the handler of this step
EvaluatedInStep(i) ==
    \/ GeofenceMessage /\ ~threw' /\ map /\ mapInitialized
    \/ MapTimerFires /\ Head(mapTimers).cur
    \/ (SetGeofenceAtPosition \/ ToggleGeofence) /\ i < FirstThrow(currentDevices)

\* C8: with a zone that exists and is enabled, every device with a valid location
\* that updateMarkers or checkDevicesAgainstGeofence processes gets
\* insideGeofence = (distance <= radius), the boundary counted as inside.
\* (Stated by contraposition: a located device whose flag differs from the
\* distance test is one that the handler of the step did not evaluate.)
C8_InsideIffWithinRadius ==
    [][ZoneActive' =>
        \A i \in 1..Len(currentDevices') :
            ( /\ HasLocation(currentDevices'[i])
              /\ ValidCoords(currentDevices'[i].location)
              /\ currentDevices'[i].insideGeofence #
                     Tri(Within(currentDevices'[i].location, geofenceCircle')) )
            => ~EvaluatedInStep(i)]_vars

\* a device exactly on the boundary of the enabled zone is flagged inside
C8_Witness ==
    /\ ZoneActive
    /\ \E i \in 1..Len(currentDevices) :
          /\ HasLocation(currentDevices[i])
          /\ DistSq(currentDevices[i].location, geofenceCircle.center)
                 = geofenceCircle.radius * geofenceCircle.radius
          /\ currentDevices[i].insideGeofence = "true"

\* C9: while no zone is set or the zone is disabled, no record of currentDevices
\* carries a defined insideGeofence.
C9_NoZoneNoFlag ==
    ~ZoneActive =>
        \A i \in 1..Len(currentDevices) : currentDevices[i].insideGeofence = "undefined"

\* C10: placing a zone re-evaluates, within the call, insideGeofence against the
\* new zone for every record of currentDevices that has a (numeric) location.
C10_NewZoneReevaluatesAll ==
    [][SetGeofenceAtPosition =>
        \A i \in 1..Len(currentDevices') :
            (HasLocation(currentDevices'[i]) /\ currentDevices'[i].location.numeric)
            => currentDevices'[i].insideGeofence =
                   Tri(Within(currentDevices'[i].location, geofenceCircle'))]_vars

\* C12: the map never shows more than one circle; a click that places a zone
\* leaves geofenceCircle as the circle of the click, enabled and shown, as the
\* only circle layer of the map.
C12_SingleZone ==
    [][ /\ circleLayers' <= 1
        /\ circleShown' => (geofenceCircle' # NoCircle /\ circleLayers' = 1)
        /\ \A c \in Centers :
              SetGeofenceAt(c) =>
                  /\ geofenceCircle' = [center |-> c, radius |-> GeofenceRadius]
                  /\ geofenceEnabled'
                  /\ circleShown'
                  /\ circleLayers' = 1 ]_vars

\* the zone of the second centre is shown while a record still carries the
\* "inside" it got from the zone of the first centre: a zone was replaced
C12_Witness ==
    /\ geofenceCircle = [center |-> [lat |-> 300, lng |-> 901], radius |-> GeofenceRadius]
    /\ circleShown
    /\ circleLayers = 1
    /\ \E i \in 1..Len(currentDevices) : currentDevices[i].insideGeofence = "true"

\* the records of currentDevices after toggleGeofence has run twice in a row,
\* starting with the zone enabled
ToggledTwice ==
    LET off == CheckDevicesAgainstGeofence(currentDevices, deviceMarkers, map,
                                           geofenceCircle, FALSE)
    IN  CheckDevicesAgainstGeofence(off.devs, off.markers, map, geofenceCircle, TRUE).devs

\* C11: with the zone enabled and the device set unchanged, toggleGeofence twice
\* (disable, re-enable) leaves every record with the insideGeofence it had.
C11_ToggleRoundTrip ==
    ZoneActive =>
        \A i \in 1..Len(currentDevices) :
            ToggledTwice[i].insideGeofence = currentDevices[i].insideGeofence

----------------------------------------------------------------------------
(* Claims about invalid locations (specification SpecLocation) *)

\* C18: a record whose coordinates are non-numeric or out of range (and whose id
\* no other record of the snapshot carries) has no marker on the map and no
\* insideGeofence value.
C18_InvalidLocationOffMap ==
    \A i \in 1..Len(currentDevices) :
        ( /\ HasLocation(currentDevices[i])
          /\ ~ValidCoords(currentDevices[i].location)
          /\ Occurrences(currentDevices, currentDevices[i].id) = 1 )
        => ( /\ currentDevices[i].id \notin DOMAIN deviceMarkers
             /\ currentDevices[i].insideGeofence = "undefined" )

----------------------------------------------------------------------------
(* Claims about the connection (specification SpecConnection) *)

\* C19: the close event of the WebSocket leaves currentDevices, deviceStatus,
\* deviceMarkers and the geofence zone as they were.
C19_CloseKeepsRegistry ==
    [][OnClose =>
        UNCHANGED <<currentDevices, deviceStatus, deviceMarkers,
                    geofenceCircle, geofenceEnabled>>]_vars

\* the socket has closed while devices, markers and an enabled zone exist
C19_Witness ==
    /\ ~wsOpen
    /\ currentDevices # <<>>
    /\ DOMAIN deviceStatus.active # {}
    /\ DOMAIN deviceMarkers # {}
    /\ ZoneActive

----------------------------------------------------------------------------
(* Claims about the station fix and malformed entries (specification SpecStation) *)

\* the fix is the first one, or more than 100 m from the last accepted fix
Moved(fix) ==
    \/ ~usingGPS
    \/ FartherThan(TRUE, userLocation, Pos(fix.lat, fix.lng), RecenterThreshold)

\* C16: with a map on the page, a station fix re-centres the map on the fix
\* exactly when there was no previous fix or the fix is more than 100 m from the
\* previously accepted one.
C16_RecenterWhenMoved ==
    [][\A batch \in StationBatches, fix \in Fixes :
          (map /\ OnMessageOf(batch, fix) /\ ~threw') =>
              mapCenter' = IF Moved(fix) THEN Pos(fix.lat, fix.lng) ELSE mapCenter]_vars

\* C17: a snapshot that holds an entry without power still has its well-formed
\* entries classified and given markers, and its station fix is applied.
C17_MalformedEntrySkipped ==
    [][\A batch \in StationBatches, fix \in Fixes :
          OnMessageOf(batch, fix) =>
              /\ userLocation' = Pos(fix.lat, fix.lng)
              /\ \A i \in 1..Len(batch) :
                    batch[i].power =>
                        /\ currentDevices'[i].isActive # "undefined"
                        /\ (map /\ mapInitialized /\ ValidCoords(batch[i].location)
                               /\ HasLocation(currentDevices'[i]))
                           => batch[i].id \in DOMAIN deviceMarkers']_vars

----------------------------------------------------------------------------
(* Claims about the whitelist dialogue (specification SpecWhitelist) *)

\* the whitelisted flags of the records, in order
Flags(devs) == [i \in 1..Len(devs) |-> devs[i].whitelisted]

\* C13: when a whitelist add for an id has completed successfully, the record
\* with that id in currentDevices (the first one, as findIndex finds it) is
\* whitelisted at the end of that step, whatever snapshots replaced
\* currentDevices while the request was pending.
C13_AddSetsFlag ==
    [][\A k \in 1..Len(pending) :
          LET i == FindIndex(currentDevices', pending[k].id)
          IN  (pending[k].op = "add" /\ i # 0 /\ ~currentDevices'[i].whitelisted)
                  => ~Resolved(k, "ok")]_vars

\* an add has completed: its modal is hidden, nothing was alerted, and the
\* record of the id is whitelisted
C13_Witness ==
    /\ modal.id = "a" /\ ~modal.open /\ ~modal.whitelisted
    /\ lastAlert = "none"
    /\ pending = <<>>
    /\ FindIndex(currentDevices, "a") # 0
    /\ currentDevices[FindIndex(currentDevices, "a")].whitelisted

\* C14: a whitelist add or remove that ends in a non-2xx response or a network
\* error changes no whitelisted flag in any of its steps, alerts the failure
\* and sends no further request.
C14_FailureKeepsFlag ==
    [][/\ (AddToWhitelist \/ RemoveFromWhitelist) => Flags(currentDevices') = Flags(currentDevices)
       /\ \A k \in 1..Len(pending), r \in Responses \ {"ok"} :
              Resolved(k, r) =>
                  /\ Flags(currentDevices') = Flags(currentDevices)
                  /\ lastAlert' = "failure"
                  /\ Len(pending') = Len(pending) - 1]_vars

\* a failed add: the failure is alerted, the modal still offers "add", no
\* request is pending and the record is not whitelisted
C14_Witness ==
    /\ lastAlert = "failure"
    /\ modal.id = "a" /\ modal.open /\ ~modal.whitelisted
    /\ pending = <<>>
    /\ Len(currentDevices) > 0
    /\ \A i \in 1..Len(currentDevices) : ~currentDevices[i].whitelisted

\* C15: a DELETE answered 404 (the id is not in the store) takes the success
\* path of removeFromWhitelist: the record's flag is cleared and no failure is
\* alerted.
C15_RemoveAbsentIsSuccess ==
    [][\A k \in 1..Len(pending) :
          (pending[k].op = "remove" /\ Resolved(k, "not_found")) =>
              /\ lastAlert' # "failure"
              /\ LET i == FindIndex(currentDevices', pending[k].id)
                 IN  i # 0 => ~currentDevices'[i].whitelisted]_vars

\* C20: after a snapshot has been processed, each record's whitelisted flag is
\* the one the snapshot reports for it; a flag set locally by an earlier add or
\* remove does not survive.
C20_SnapshotFlagsWin ==
    [][\A batch \in WhitelistBatches :
          (Flags(currentDevices') # [i \in 1..Len(batch) |-> batch[i].whitelisted])
              => ~OnMessageOf(batch, NoStation)]_vars

\* an add completed (modal hidden, nothing alerted) and a later snapshot
\* reports the id as not whitelisted: no record carries the local flag
C20_Witness ==
    /\ modal.id = "a" /\ ~modal.open /\ ~modal.whitelisted
    /\ lastAlert = "none"
    /\ Len(currentDevices) > 0
    /\ \A i \in 1..Len(currentDevices) : ~currentDevices[i].whitelisted

----------------------------------------------------------------------------
(* Claims about the active and inactive maps (specification Spec) *)

\* C24: no id is a key of both deviceStatus.active and deviceStatus.inactive,
\* also after a batch that lists an id twice with different last_seen values.
C24_StatusMapsDisjoint ==
    (DOMAIN deviceStatus.active) \cap (DOMAIN deviceStatus.inactive) = {}

\* what updateDeviceStatusCount displays: "<n> active / <m> inactive"
StatusCount(ds) == Cardinality(DOMAIN ds.active) + Cardinality(DOMAIN ds.inactive)

\* C25: an id that is a key of deviceStatus.active or deviceStatus.inactive stays
\* a key of one of them over every message, and the sum of the two displayed
\* counts never decreases.
C25_TrackedIdsNeverLost ==
    [][/\ Known(deviceStatus) \subseteq Known(deviceStatus')
       /\ StatusCount(deviceStatus') >= StatusCount(deviceStatus)]_vars

----------------------------------------------------------------------------
(* Claims about the device list (specification SpecList) *)

\* the records of an array in order, each named by its id and last_seen
Keys(devs) == [i \in 1..Len(devs) |-> <<devs[i].id, devs[i].last_seen>>]

----------------------------------------------------------------------------
(* Claims about devices without location (specification SpecProcess) *)

\* C22: no evaluation of the geofence (updateMarkers, checkDevicesAgainstGeofence,
\* processDeviceData) ends in an exception on data that holds a device without
\* location, and no record without location carries a defined insideGeofence.
C22_NoLocationNoFlag ==
    /\ ~threw
    /\ \A i \in 1..Len(currentDevices) :
          ~HasLocation(currentDevices[i]) => currentDevices[i].insideGeofence = "undefined"

----------------------------------------------------------------------------
(* Claims about the start of the page (specification SpecStartup) *)

\* C26: the deferred body of initializeMap runs at most once (never on a page
\* whose map is already initialised), and after it every marker of
\* deviceMarkers is a layer of the current map.
C26_MapCreatedOnce ==
    [][MapTimerFires =>
          /\ ~mapInitialized
          /\ \A id \in DOMAIN deviceMarkers' : deviceMarkers'[id]]_vars

\* ws.onmessage has stamped the records of currentDevices
SnapshotProcessed ==
    \E i \in 1..Len(currentDevices) : currentDevices[i].isActive # "undefined"

\* C27: the response of the initial fetch, when it arrives after a snapshot has
\* been processed, leaves currentDevices as the snapshot left it.
C27_FetchKeepsSnapshot ==
    [][(SnapshotProcessed /\ FetchResolved) => currentDevices' = currentDevices]_vars

\* C28: usingGPS is never reset, and a geolocation callback that fires while
\* usingGPS is set leaves userLocation and the station marker as they are.
C28_GpsBeatsBrowser ==
    [][/\ usingGPS => usingGPS'
       /\ (usingGPS /\ GeolocationSuccess) => UNCHANGED <<userLocation, userMarker>>]_vars

\* the browser has called back, a fix was received, and the station and its
\* marker are at the fix
C28_Witness ==
    /\ usingGPS
    /\ ~geoPending
    /\ userLocation = Pos(0, 0)
    /\ userMarker = MarkerAt(Pos(0, 0))
    /\ mapCenter # Pos(50, 50)

\* deviceMarkers holds no marker for an id outside ids and one for every id of markable
\* (a dictionary holds at most one marker per id)
MarkersMatch(markers, ids, markable) ==
    /\ DOMAIN markers \subseteq ids
    /\ markable \subseteq DOMAIN markers

\* C29: when updateMarkers(devices) has completed on an initialised map (called by
\* ws.onmessage, or by the deferred body of initializeMap with the devices array
\* it was given), every key of deviceMarkers is the id of a device of devices, and
\* every device of devices with a valid location has its one marker in deviceMarkers.
C29_MarkersMatchDevices ==
    [][/\ (map /\ mapInitialized /\ ~threw' /\ ListMessage)
            => MarkersMatch(deviceMarkers', IdsOf(currentDevices'), Markable(currentDevices'))
       /\ (MapTimerFires /\ Head(mapTimers).cur /\ Len(currentDevices) > 0)
            => MarkersMatch(deviceMarkers', IdsOf(currentDevices'), Markable(currentDevices'))
       /\ (MapTimerFires /\ ~Head(mapTimers).cur /\ Head(mapTimers).ids # {})
            => MarkersMatch(deviceMarkers', Head(mapTimers).ids, Head(mapTimers).markable)]_vars

\* a snapshot with a located and an unlocated device has been drawn on the map
C29_Witness ==
    /\ map /\ mapInitialized /\ ~threw
    /\ deviceList # <<>>
    /\ IdsOf(currentDevices) = {"a", "b"}
    /\ Markable(currentDevices) = {"a"}
    /\ DOMAIN deviceMarkers = {"a"}
    /\ deviceMarkers["a"]

----------------------------------------------------------------------------
(* Claims about reconnection (specification SpecConnectionFair) *)

\* C30: every close event schedules exactly one reconnect timer, due 5 s after
\* the close; at no time is more than one reconnect timer pending or more than
\* one socket delivering messages; and whenever the socket of ws has closed,
\* a new connection attempt (initializeWebSocket, which gives ws a new socket)
\* eventually follows.
C30_Reconnection ==
    /\ [][OnClose => /\ Len(reconnectTimers') = Len(reconnectTimers) + 1
                     /\ reconnectTimers'[Len(reconnectTimers')] = now + ReconnectDelayMs]_vars
    /\ [](Len(reconnectTimers) <= 1 /\ LiveSockets <= 1)
    /\ \A n \in 1..MaxAttempts : (~wsOpen /\ connectAttempts = n) ~> (connectAttempts > n)

\* the socket has closed twice and each close was followed by a reconnect that
\* found its timer run out
C30_Witness ==
    /\ connectAttempts = 3
    /\ wsOpen
    /\ reconnectTimers = <<>>
    /\ now >= 2 * ReconnectDelayMs

====
